---- MODULE Spec2Model ----
(***************************************************************************)
(* State-machine model of the stock-data retrieval pipeline of sql_app:    *)
(* the request handlers of route.py, the session dependency of session.py  *)
(* and the helpers of functions.py.                                        *)
(*                                                                         *)
(* Texts (date strings, numeric table cells) are sequences of one-letter   *)
(* strings, so that parsing and formatting are computed, not assumed.      *)
(* A handler ends either by returning a payload, by raising HTTPException, *)
(* or by letting another exception propagate out of the handler.           *)
(***************************************************************************)
EXTENDS Integers, Sequences, FiniteSets, TLC

(***************************************************************************)
(* Bounds of the model.                                                    *)
(***************************************************************************)
MaxStore == 2          \* most rows the nepse table holds
MaxPage == 2           \* largest page number a request asks for
MaxPageSizeIn == 2     \* largest page_size a request asks for

(***************************************************************************)
(* Texts.                                                                  *)
(***************************************************************************)
Digits == {"0", "1", "2", "3", "4", "5", "6", "7", "8", "9"}

DigitVal(c) ==
    CASE c = "0" -> 0 [] c = "1" -> 1 [] c = "2" -> 2 [] c = "3" -> 3
      [] c = "4" -> 4 [] c = "5" -> 5 [] c = "6" -> 6 [] c = "7" -> 7
      [] c = "8" -> 8 [] c = "9" -> 9

DigitChar(n) ==
    CASE n = 0 -> "0" [] n = 1 -> "1" [] n = 2 -> "2" [] n = 3 -> "3"
      [] n = 4 -> "4" [] n = 5 -> "5" [] n = 6 -> "6" [] n = 7 -> "7"
      [] n = 8 -> "8" [] n = 9 -> "9"

\* The value of a text of decimal digits.
RECURSIVE DecVal(_)
DecVal(t) ==
    IF t = <<>> THEN 0
    ELSE 10 * DecVal(SubSeq(t, 1, Len(t) - 1)) + DigitVal(t[Len(t)])

AllDigits(t) == \A i \in 1..Len(t) : t[i] \in Digits

\* n written with exactly w digits (zero padded), n < 10^w.
RECURSIVE Pad(_, _)
Pad(n, w) ==
    IF w = 0 THEN <<>> ELSE Append(Pad(n \div 10, w - 1), DigitChar(n % 10))

\* Python's None where a text is expected (a query parameter left out).
None == <<"None">>

(***************************************************************************)
(* datetime.strptime(text, "%Y-%m-%d") and strftime.                       *)
(* %Y is exactly four digits; %m is 1[0-2] | 0[1-9] | [1-9]; %d is         *)
(* 3[01] | [12]\d | 0[1-9] | [1-9] | " "[1-9], alternatives tried in that  *)
(* order; text left over after the match, a month or day outside the       *)
(* calendar, and year 0 raise ValueError; a non-text raises TypeError.     *)
(***************************************************************************)
IsLeap(y) == (y % 4 = 0 /\ y % 100 # 0) \/ y % 400 = 0

DaysIn(y, m) ==
    IF m = 2 THEN (IF IsLeap(y) THEN 29 ELSE 28)
    ELSE IF m \in {4, 6, 9, 11} THEN 30 ELSE 31

NonZero == Digits \ {"0"}

\* Length of the %m match at position p of t that is followed by "-", or 0.
MonthLen(t, p) ==
    LET two == p + 1 <= Len(t)
               /\ \/ (t[p] = "1" /\ t[p + 1] \in {"0", "1", "2"})
                  \/ (t[p] = "0" /\ t[p + 1] \in NonZero)
        one == p <= Len(t) /\ t[p] \in NonZero
        dash(q) == q <= Len(t) /\ t[q] = "-"
    IN  IF two /\ dash(p + 2) THEN 2
        ELSE IF one /\ dash(p + 1) THEN 1
        ELSE 0

\* Length of the %d match at position p of t, or 0.
DayLen(t, p) ==
    LET two == p + 1 <= Len(t)
               /\ \/ (t[p] = "3" /\ t[p + 1] \in {"0", "1"})
                  \/ (t[p] \in {"1", "2"} /\ t[p + 1] \in Digits)
                  \/ (t[p] = "0" /\ t[p + 1] \in NonZero)
        one == p <= Len(t) /\ t[p] \in NonZero
        blank == p + 1 <= Len(t) /\ t[p] = " " /\ t[p + 1] \in NonZero
    IN  IF two THEN 2 ELSE IF one THEN 1 ELSE IF blank THEN 2 ELSE 0

ValueError == [err |-> "ValueError", y |-> 0, m |-> 0, d |-> 0]
TypeError == [err |-> "TypeError", y |-> 0, m |-> 0, d |-> 0]

strptime(t) ==
    IF t = None THEN TypeError
    ELSE IF ~(Len(t) >= 5 /\ AllDigits(SubSeq(t, 1, 4)) /\ t[5] = "-")
    THEN ValueError
    ELSE LET ml == MonthLen(t, 6)
             dp == 6 + ml + 1
             dl == DayLen(t, dp)
             y == DecVal(SubSeq(t, 1, 4))
             m == DecVal(SubSeq(t, 6, 5 + ml))
             dt == SubSeq(t, dp, dp + dl - 1)
             d == DecVal(IF dl = 2 /\ dt[1] = " " THEN <<dt[2]>> ELSE dt)
         IN  IF ml = 0 \/ dl = 0 \/ dp + dl - 1 # Len(t) THEN ValueError
             ELSE IF y < 1 \/ d > DaysIn(y, m) THEN ValueError
             ELSE [err |-> "ok", y |-> y, m |-> m, d |-> d]

\* strftime("%m/%d/%Y") and strftime("%Y-%m-%d") of a parsed date.
strftime_mdY(dt) == Pad(dt.m, 2) \o <<"/">> \o Pad(dt.d, 2) \o <<"/">> \o Pad(dt.y, 4)
strftime_Ymd(dt) == Pad(dt.y, 4) \o <<"-">> \o Pad(dt.m, 2) \o <<"-">> \o Pad(dt.d, 2)

\* Variant: the adapter takes the ten-character form YYYY-MM-DD alone.
convert_date_format_Strict(iso_date_str) ==
    LET date_obj == strptime(iso_date_str)
    IN  IF Len(iso_date_str) # 10 THEN [err |-> "ValueError", text |-> <<>>]
        ELSE IF date_obj.err = "ok"
        THEN [err |-> "ok", text |-> strftime_mdY(date_obj)]
        ELSE [err |-> date_obj.err, text |-> <<>>]

\* convert_date_format: 'YYYY-MM-DD' to 'MM/DD/YYYY'; raises what strptime raises.
convert_date_format(iso_date_str) ==
    LET date_obj == strptime(iso_date_str)
    IN  IF date_obj.err = "ok"
        THEN [err |-> "ok", text |-> strftime_mdY(date_obj)]
        ELSE [err |-> date_obj.err, text |-> <<>>]

\* The calendar date a stored Close_Date holds.
DateOf(dt) == <<dt.y, dt.m, dt.d>>

(***************************************************************************)
(* The nepse table (models.py) and the queries route.py runs on it.        *)
(* A row is [Sn, Symbol, Total_Traded_Quantity, Total_Trades,              *)
(* Market_Capitalization_Rs__Amt_in_Millions, Close_Date]; the other       *)
(* columns are carried like Total_Traded_Quantity and are left out.        *)
(***************************************************************************)
Symbols == {"A", "B"}

Nepse(sn, symbol, qty, trades, mcap, close_date) ==
    [Sn |-> sn, Symbol |-> symbol, Total_Traded_Quantity |-> qty,
     Total_Trades |-> trades,
     Market_Capitalization_Rs__Amt_in_Millions |-> mcap,
     Close_Date |-> close_date]

\* .filter(Nepse.Close_Date == date_obj)
FilterByDate(rows, date_obj) == {n \in rows : n.Close_Date = DateOf(date_obj)}

\* .order_by(Nepse.Sn): the rows as a sequence of ascending Sn.
RECURSIVE OrderBySn(_)
OrderBySn(rows) ==
    IF rows = {} THEN <<>>
    ELSE LET first == CHOOSE n \in rows : \A o \in rows : n.Sn <= o.Sn
         IN  <<first>> \o OrderBySn(rows \ {first})

\* .offset(offset).limit(limit) of an ordered result.
OffsetLimit(seq, offset, limit) ==
    SubSeq(seq, offset + 1, IF offset + limit < Len(seq) THEN offset + limit ELSE Len(seq))

\* Variant: the offset taken as page * page_size.
QueryByDatePaged_PageOffset(rows, date_obj, page, page_size) ==
    OffsetLimit(OrderBySn(FilterByDate(rows, date_obj)), page * page_size, page_size)

\* .all() of the paged by-date query of get_stock_by_date.
QueryByDatePaged(rows, date_obj, page, page_size) ==
    OffsetLimit(OrderBySn(FilterByDate(rows, date_obj)), (page - 1) * page_size, page_size)

\* The paged query of get_stock_by_date_and_symbol: its filter names the date
\* alone, and .first() keeps one row of the page: a single object, or nothing.
QueryByDateAndSymbolFirst(rows, date_obj, symbol, page, page_size) ==
    LET paged == OffsetLimit(OrderBySn(FilterByDate(rows, date_obj)),
                             (page - 1) * page_size, page_size)
    IN  SubSeq(paged, 1, IF Len(paged) < 1 THEN Len(paged) ELSE 1)

\* db.query(Nepse).filter(Nepse.Close_Date == date_obj).count()
CountByDate(rows, date_obj) == Cardinality(FilterByDate(rows, date_obj))

\* One entry of data_dict.
ItemDict(item) ==
    [Sn |-> item.Sn, Symbol |-> item.Symbol,
     Total_Traded_Quantity |-> item.Total_Traded_Quantity,
     Total_Trades |-> item.Total_Trades,
     Market_Capitalization_Rs__Amt_in_Millions |->
         item.Market_Capitalization_Rs__Amt_in_Millions,
     Close_Date |-> item.Close_Date]

\* data_dict of get_stock_by_date: one entry per row of the page.
DataDict(data) == [i \in 1..Len(data) |-> ItemDict(data[i])]

(***************************************************************************)
(* safe_int: commas removed, every dash replaced by "0", then int().       *)
(* Cell texts are over digits, ",", "-", "." and letters; for these int()  *)
(* succeeds exactly on a non-empty text of digits.                         *)
(***************************************************************************)
RECURSIVE Replace(_, _, _)
Replace(t, old, new) ==
    IF t = <<>> THEN <<>>
    ELSE (IF t[1] = old THEN new ELSE <<t[1]>>) \o Replace(Tail(t), old, new)

safe_int(value) ==
    LET t == Replace(Replace(value, ",", <<>>), "-", <<"0">>)
    IN  IF t # <<>> /\ AllDigits(t) THEN DecVal(t) ELSE 0

(***************************************************************************)
(* safe_float: the same two replacements, then float().  A float is kept   *)
(* as its whole part and the digits of its fraction, trailing zeros        *)
(* dropped.  For texts over digits and "." float() succeeds exactly when   *)
(* there is a digit and at most one ".".                                   *)
(***************************************************************************)
RECURSIVE DropTrailingZeros(_)
DropTrailingZeros(t) ==
    IF t = <<>> \/ t[Len(t)] # "0" THEN t
    ELSE DropTrailingZeros(SubSeq(t, 1, Len(t) - 1))

Float(whole, frac) == [whole |-> DecVal(whole), frac |-> DropTrailingZeros(frac)]

safe_float(value) ==
    LET t == Replace(Replace(value, ",", <<>>), "-", <<"0">>)
        dots == {i \in 1..Len(t) : t[i] = "."}
        numeric == /\ \A i \in 1..Len(t) : t[i] \in Digits \cup {"."}
                   /\ \E i \in 1..Len(t) : t[i] \in Digits
                   /\ Cardinality(dots) <= 1
    IN  IF ~numeric THEN Float(<<>>, <<>>)
        ELSE IF dots = {} THEN Float(t, <<>>)
        ELSE LET k == CHOOSE i \in dots : TRUE
             IN  Float(SubSeq(t, 1, k - 1), SubSeq(t, k + 1, Len(t)))

(***************************************************************************)
(* The markup the driver returns (innerHTML of the results container) and  *)
(* the two table extractors of functions.py.  A fragment is blank text or  *)
(* a sequence of row groups: the <tr> children of one parent element, with *)
(* the parent's tag and whether its table carries class table__lg.  A row  *)
(* is the sequence of the texts of its <td> cells (a header row of <th>    *)
(* cells has none).                                                        *)
(***************************************************************************)
NumCells == 15

Txt1 == <<"1">>

\* A data row of 15 cells: symbol in cell 1, traded quantity in cell 6 (0-based).
DataRow(symbol, qty) ==
    <<Txt1, symbol, Txt1, Txt1, Txt1, Txt1, qty, Txt1, Txt1, Txt1, Txt1, Txt1,
      Txt1, Txt1, Txt1>>

HeaderRow == <<>>
ShortRow == <<Txt1, "A", Txt1>>

Group(tag, lg, rows) == [tag |-> tag, table_lg |-> lg, rows |-> rows]
Fragment(blank, groups) == [blank |-> blank, groups |-> groups]

RowA == DataRow("A", <<"1", ",", "2">>)
RowB == DataRow("B", <<"-">>)

\* html.fromstring refuses blank text.
FragBlank == Fragment(TRUE, <<>>)
\* Markup without any table row.
FragNoRows == Fragment(FALSE, <<>>)
\* The site's table: a header row in <thead>, the data rows in <tbody>.
FragSite(rows) ==
    Fragment(FALSE, <<Group("thead", TRUE, <<HeaderRow>>), Group("tbody", TRUE, rows)>>)
\* A table whose rows are all children of one element, header row first.
FragFlat(rows) ==
    Fragment(FALSE, <<Group("table", FALSE, <<HeaderRow>> \o rows)>>)

Fragments ==
    {FragBlank, FragNoRows,
     FragSite(<<RowA>>),
     FragSite(<<RowA, RowB, ShortRow, RowA>>),
     FragFlat(<<RowA, ShortRow, RowB, RowA>>)}

\* root.xpath('//tr[position() > 1]'): of every parent, the rows after its first.
RECURSIVE TrsAfterFirst(_)
TrsAfterFirst(groups) ==
    IF groups = <<>> THEN <<>>
    ELSE SubSeq(groups[1].rows, 2, Len(groups[1].rows)) \o TrsAfterFirst(Tail(groups))

\* root.xpath('//table[contains(@class, "table__lg")]/tbody/tr')
RECURSIVE TrsOfTableLg(_)
TrsOfTableLg(groups) ==
    IF groups = <<>> THEN <<>>
    ELSE (IF groups[1].tag = "tbody" /\ groups[1].table_lg THEN groups[1].rows ELSE <<>>)
         \o TrsOfTableLg(Tail(groups))

\* The loop body shared by both extractors: rows without exactly 15 cells are
\* skipped, the others appended in order.
RECURSIVE RowsToFrame(_, _)
RowsToFrame(trs, date_str) ==
    IF trs = <<>> THEN <<>>
    ELSE LET cells == trs[1]
             rest == RowsToFrame(Tail(trs), date_str)
         IN  IF Len(cells) # NumCells THEN rest
             ELSE <<[Symbol |-> cells[2],
                     Total_Traded_Quantity |-> safe_int(cells[7]),
                     Close_Date |-> strftime_Ymd(strptime(date_str))]>> \o rest

process_html_to_dataframe_date(html_content, date_str) ==
    IF html_content.blank THEN [err |-> "ParserError", frame |-> <<>>]
    ELSE [err |-> "ok", frame |-> RowsToFrame(TrsAfterFirst(html_content.groups), date_str)]

process_html_to_dataframe_symbol(html_content, date_str) ==
    IF html_content.blank THEN [err |-> "ParserError", frame |-> <<>>]
    ELSE [err |-> "ok", frame |-> RowsToFrame(TrsOfTableLg(html_content.groups), date_str)]

\* Variant: the slice runs from start_index to the end of the frame.
Iloc_ToEnd(frame, start_index, end_index) ==
    SubSeq(frame, start_index + 1, Len(frame))

\* data_frame.iloc[start_index:end_index]
Iloc(frame, start_index, end_index) ==
    SubSeq(frame, start_index + 1, IF end_index < Len(frame) THEN end_index ELSE Len(frame))

(***************************************************************************)
(* Requests.                                                               *)
(***************************************************************************)
Reqs == {"r1", "r2"}

\* Date texts a client sends; the date parameter of the two GET routes
\* defaults to None, the close_date of POST is required.
Date0703 == <<"2", "0", "2", "4", "-", "0", "7", "-", "0", "3">>
Date0704 == <<"2", "0", "2", "4", "-", "0", "7", "-", "0", "4">>
DateLoose == <<"2", "0", "2", "4", "-", "7", "-", "3">>
DateBad == <<"n", "o", "t", "-", "a", "-", "d", "a", "t", "e">>

QueryDates == {Date0703, Date0704, DateLoose, DateBad, None}
AddDates == {Date0703, Date0704, DateBad}
AddQuantities == {5}
AddTrades == {3}
AddMarketCaps == {7}
\* What the requests of the write handlers carry: a quantity is any int.
WriteQuantities == {-1, 5}
UpdateMarketCaps == {9}
Pages == 1..MaxPage
PageSizes == 1..MaxPageSizeIn

RetrievalOps == {"get_stock_by_date", "get_stock_by_date_and_symbol"}

\* The steps of the driver session inside try ... finally driver.quit().
DriverSteps(op) ==
    IF op = "get_stock_by_date"
    THEN <<"get", "select_500", "date_input", "filter_button", "table_element">>
    ELSE <<"get", "date_input", "symbol_input", "filter_button", "table_element">>

\* How a handler ended.  kind: "data" (the success payload), "message" (a
\* payload holding a message alone), "record" (the stored row POST returns),
\* "HTTPException" (raised by the handler, with status and detail) or
\* "exception" (any other exception leaving the handler; detail is its class).
NoResult ==
    [kind |-> "none", data |-> <<>>, page |-> 0, page_size |-> 0,
     total_records |-> 0, status |-> 0, detail |-> ""]

DataResult(data, page, page_size, total) ==
    [NoResult EXCEPT !.kind = "data", !.data = data, !.page = page,
                     !.page_size = page_size, !.total_records = total]
MessageResult(message) == [NoResult EXCEPT !.kind = "message", !.detail = message]
RecordResult(row) == [NoResult EXCEPT !.kind = "record", !.data = <<row>>]
HTTPException(status, detail) ==
    [NoResult EXCEPT !.kind = "HTTPException", !.status = status, !.detail = detail]
Raised(class) == [NoResult EXCEPT !.kind = "exception", !.detail = class]

NoDate == [err |-> "none", y |-> 0, m |-> 0, d |-> 0]

IdleReq ==
    [pc |-> "idle", op |-> "none", date |-> None, symbol |-> "", page |-> 0,
     page_size |-> 0, qty |-> 0, trades |-> 0, mcap |-> 0, db |-> "none", date_obj |-> NoDate,
     data |-> <<>>, formatted_date |-> <<>>, driver |-> "none", step |-> 0,
     inner_html |-> FragBlank, result |-> NoResult]

VARIABLES
    store,    \* the rows of the nepse table
    nextSn,   \* the Sn the table gives to the next inserted row
    req,      \* per request slot: the handler's position and locals
    call      \* a direct call of a helper of functions.py: name, argument, result

vars == <<store, nextSn, req, call>>

\* No helper is called directly.
NoCall == [fn |-> "none"]

Init ==
    /\ store = {}
    /\ nextSn = 1
    /\ req = [r \in Reqs |-> IdleReq]
    /\ call = NoCall

\* The handler of r ends with result res; get_db's finally closes the session.
Ended(r, res) ==
    [req EXCEPT ![r].pc = "done", ![r].result = res, ![r].db = "closed"]

\* FastAPI resolves Depends(get_db) and calls the handler with the query
\* parameters.  A handler has no await, so one process runs it to its end
\* before it starts the next.
Start(r) ==
    /\ \A o \in Reqs : req[o].pc = "idle"
    /\ \/ \E date \in QueryDates, page \in Pages, page_size \in PageSizes :
            req' = [req EXCEPT ![r] =
                       [IdleReq EXCEPT !.pc = "validate", !.op = "get_stock_by_date",
                                       !.date = date, !.page = page,
                                       !.page_size = page_size, !.db = "open"]]
       \/ \E date \in QueryDates, symbol \in Symbols, page \in Pages,
             page_size \in PageSizes :
            req' = [req EXCEPT ![r] =
                       [IdleReq EXCEPT !.pc = "validate",
                                       !.op = "get_stock_by_date_and_symbol",
                                       !.date = date, !.symbol = symbol, !.page = page,
                                       !.page_size = page_size, !.db = "open"]]
       \/ /\ Cardinality(store) < MaxStore
          /\ \E date \in AddDates, symbol \in Symbols, qty \in AddQuantities,
                trades \in AddTrades, mcap \in AddMarketCaps :
               req' = [req EXCEPT ![r] =
                          [IdleReq EXCEPT !.pc = "validate", !.op = "add_stock",
                                          !.date = date, !.symbol = symbol,
                                          !.qty = qty, !.trades = trades,
                                          !.mcap = mcap, !.db = "open"]]
    /\ UNCHANGED <<store, nextSn, call>>

\* The detail of the 400 the first date check raises.
InvalidDateDetail(op) ==
    IF op \in RetrievalOps THEN "Invalid date format, please use YYYY-MM-DD format."
    ELSE "Invalid date format. Please use YYYY-MM-DD format."

\* try: datetime.strptime(date, "%Y-%m-%d") except ValueError: raise 400.
\* Only ValueError is caught.
ValidateDate(r) ==
    LET date_obj == strptime(req[r].date)
    IN  IF date_obj.err = "ok"
        THEN [req EXCEPT ![r].date_obj = date_obj,
                         ![r].pc = IF req[r].op \in RetrievalOps THEN "query"
                                   ELSE IF req[r].op = "add_stock" THEN "insert"
                                   ELSE IF req[r].op = "update_stock" THEN "update_find"
                                   ELSE "delete_find"]
        ELSE IF date_obj.err = "ValueError"
        THEN Ended(r, HTTPException(400, InvalidDateDetail(req[r].op)))
        ELSE Ended(r, Raised(date_obj.err))

Validate(r) ==
    /\ req[r].pc = "validate"
    /\ req' = ValidateDate(r)
    /\ UNCHANGED <<store, nextSn, call>>

\* The detail of the 500 raised when the paged query fails.
StoreErrorDetail(op) ==
    IF op = "get_stock_by_date" THEN "str(db_err)" ELSE "Database operation failed"

\* The paged query of the two GET handlers, for the locals q of a request.
PagedQueryOn(rows, q) ==
    IF q.op = "get_stock_by_date"
    THEN QueryByDatePaged(rows, q.date_obj, q.page, q.page_size)
    ELSE QueryByDateAndSymbolFirst(rows, q.date_obj, q.symbol, q.page, q.page_size)

\* Variant: the offset goes on from the pages already served to the requests
\* in the other slots (a cursor kept across handler calls).
PagedQuery_Cursor(r) ==
    PagedQueryOn(store, [req[r] EXCEPT !.page =
                            @ + Cardinality({o \in Reqs \ {r} : req[o].data # <<>>})])

PagedQuery(r) == PagedQueryOn(store, req[r])

\* try: data = db.query(...)... except SQLAlchemyError: raise 500; then the
\* branch on "if data".
StoreQuery(r) ==
    /\ req[r].pc = "query"
    /\ \E ok \in BOOLEAN :
         req' = IF ~ok
                THEN Ended(r, HTTPException(500, StoreErrorDetail(req[r].op)))
                ELSE LET data == PagedQuery(r)
                     IN  [req EXCEPT ![r].data = data,
                                     ![r].pc = IF data # <<>> THEN "respond" ELSE "convert"]
    /\ UNCHANGED <<store, nextSn, call>>

\* total_records of the store branch.
TotalRecords(r) == CountByDate(store, req[r].date_obj)

\* get_stock_by_date, "if data:": data_dict, then the count query (outside any
\* try) in the return statement.
StoreHitByDate(r, ok) ==
    IF ~ok THEN Ended(r, Raised("SQLAlchemyError"))
    ELSE Ended(r, DataResult(DataDict(req[r].data), req[r].page, req[r].page_size,
                             TotalRecords(r)))

\* get_stock_by_date_and_symbol, "if data:": data is the single row .first()
\* gave, and "for item in data" over it raises TypeError before the return.
StoreHitBySymbol(r) == Ended(r, Raised("TypeError"))

StoreRespond(r) ==
    /\ req[r].pc = "respond"
    /\ IF req[r].op = "get_stock_by_date"
       THEN \E ok \in BOOLEAN : req' = StoreHitByDate(r, ok)
       ELSE req' = StoreHitBySymbol(r)
    /\ UNCHANGED <<store, nextSn, call>>

\* "if not data:" try: convert_date_format(date) except ValueError: raise 400.
Convert(r) ==
    /\ req[r].pc = "convert"
    /\ LET c == convert_date_format(req[r].date)
       IN  req' = IF c.err = "ok"
                  THEN [req EXCEPT ![r].formatted_date = c.text, ![r].pc = "driver"]
                  ELSE IF c.err = "ValueError"
                  THEN Ended(r, HTTPException(400, "Date format should be YYYY-MM-DD"))
                  ELSE Ended(r, Raised(c.err))
    /\ UNCHANGED <<store, nextSn, call>>

\* Variant: a request that finds the markup another request of the same
\* filter has fetched takes that markup and starts no driver of its own.
DriverStart_Coalesced(r) ==
    /\ req[r].pc = "driver"
    /\ LET fetched == {o \in Reqs \ {r} :
                          /\ req[o].op = req[r].op /\ req[o].date = req[r].date
                          /\ req[o].symbol = req[r].symbol
                          /\ req[o].step > Len(DriverSteps(req[o].op))}
       IN  IF fetched # {}
           THEN \E o \in fetched :
                  req' = [req EXCEPT ![r].inner_html = req[o].inner_html,
                                     ![r].pc = "extract"]
           ELSE \E ok \in BOOLEAN :
                  req' = IF ok
                         THEN [req EXCEPT ![r].driver = "open", ![r].step = 1,
                                          ![r].pc = "driving"]
                         ELSE Ended(r, Raised("WebDriverException"))
    /\ UNCHANGED <<store, nextSn, call>>

\* driver = webdriver.Firefox(...), before the try: a failure leaves no session.
DriverStart(r) ==
    /\ req[r].pc = "driver"
    /\ \E ok \in BOOLEAN :
         req' = IF ok
                THEN [req EXCEPT ![r].driver = "open", ![r].step = 1, ![r].pc = "driving"]
                ELSE Ended(r, Raised("WebDriverException"))
    /\ UNCHANGED <<store, nextSn, call>>

\* Variant: the failure leaves the try block without driver.quit().
DriverStepFails_NoQuit(r) == Ended(r, Raised("WebDriverException"))

\* Variant: the failure is reported as the 500 of a failed store query.
DriverStepFails_AsStoreError(r) ==
    [Ended(r, HTTPException(500, "Database operation failed")) EXCEPT ![r].driver = "quit"]

\* A step of the try block fails: finally driver.quit(), and the exception
\* leaves the handler.
DriverStepFails(r) ==
    [Ended(r, Raised("WebDriverException")) EXCEPT ![r].driver = "quit"]

\* The last step read the container's innerHTML: finally driver.quit().
DriverFetched(r, html) ==
    [req EXCEPT ![r].inner_html = html, ![r].driver = "quit",
                ![r].step = @ + 1, ![r].pc = "extract"]

DriverStep(r) ==
    /\ req[r].pc = "driving"
    /\ \E ok \in BOOLEAN :
         IF ~ok THEN req' = DriverStepFails(r)
         ELSE IF req[r].step < Len(DriverSteps(req[r].op))
         THEN req' = [req EXCEPT ![r].step = @ + 1]
         ELSE \E html \in Fragments : req' = DriverFetched(r, html)
    /\ UNCHANGED <<store, nextSn, call>>

\* The extractor each GET handler calls.
ProcessHtml(r) ==
    IF req[r].op = "get_stock_by_date"
    THEN process_html_to_dataframe_date(req[r].inner_html, req[r].date)
    ELSE process_html_to_dataframe_symbol(req[r].inner_html, req[r].date)

\* Variant: total_records counts the page, not the frame.
FallbackResult_TotalOfPage(frame, page, page_size) ==
    LET start_index == (page - 1) * page_size
        end_index == start_index + page_size
        paginated_data == Iloc(frame, start_index, end_index)
    IN  IF frame = <<>> THEN MessageResult("No data found for the specified date")
        ELSE IF paginated_data = <<>> THEN MessageResult("No data found on this page")
        ELSE DataResult(paginated_data, page, page_size, Len(paginated_data))

\* Variant: the check of the empty frame is missing.
FallbackResult_NoFrameCheck(frame, page, page_size) ==
    LET start_index == (page - 1) * page_size
        end_index == start_index + page_size
        paginated_data == Iloc(frame, start_index, end_index)
    IN  IF paginated_data = <<>> THEN MessageResult("No data found on this page")
        ELSE DataResult(paginated_data, page, page_size, Len(frame))

\* Variant: the check of the empty page is missing.
FallbackResult_NoPageCheck(frame, page, page_size) ==
    LET start_index == (page - 1) * page_size
        end_index == start_index + page_size
        paginated_data == Iloc(frame, start_index, end_index)
    IN  IF frame = <<>> THEN MessageResult("No data found for the specified date")
        ELSE DataResult(paginated_data, page, page_size, Len(frame))

\* The fallback branch after the extraction: the two empty checks, the slice
\* and the return.
FallbackResult(frame, page, page_size) ==
    LET start_index == (page - 1) * page_size
        end_index == start_index + page_size
        paginated_data == Iloc(frame, start_index, end_index)
    IN  IF frame = <<>> THEN MessageResult("No data found for the specified date")
        ELSE IF paginated_data = <<>> THEN MessageResult("No data found on this page")
        ELSE DataResult(paginated_data, page, page_size, Len(frame))

\* Variant: the extracted rows are written back to the table.
Extract_WriteBack(r) ==
    /\ req[r].pc = "extract"
    /\ LET p == ProcessHtml(r)
       IN  /\ req' = IF p.err # "ok" THEN Ended(r, Raised(p.err))
                     ELSE Ended(r, FallbackResult(p.frame, req[r].page, req[r].page_size))
           /\ store' = store \cup
                  {Nepse(nextSn + i - 1, p.frame[i].Symbol,
                         p.frame[i].Total_Traded_Quantity, 0, 0,
                         DateOf(req[r].date_obj)) :
                     i \in 1..Len(p.frame)}
           /\ nextSn' = nextSn + Len(p.frame)
           /\ UNCHANGED call

\* The fallback branch from the extraction to the return.
Extract(r) ==
    /\ req[r].pc = "extract"
    /\ LET p == ProcessHtml(r)
       IN  req' = IF p.err # "ok" THEN Ended(r, Raised(p.err))
                  ELSE Ended(r, FallbackResult(p.frame, req[r].page, req[r].page_size))
    /\ UNCHANGED <<store, nextSn, call>>

\* add_stock after the date check: db.add, db.commit, db.refresh, return data.
Insert(r) ==
    /\ req[r].pc = "insert"
    /\ \E ok \in BOOLEAN :
         IF ok
         THEN LET data == Nepse(nextSn, req[r].symbol, req[r].qty, req[r].trades,
                                req[r].mcap,
                                DateOf(req[r].date_obj))
              IN  /\ store' = store \cup {data}
                  /\ nextSn' = nextSn + 1
                  /\ req' = Ended(r, RecordResult(data))
                  /\ UNCHANGED call
         ELSE /\ req' = Ended(r, Raised("SQLAlchemyError"))
              /\ UNCHANGED <<store, nextSn, call>>

(***************************************************************************)
(* update_stock and delete_stock_by_symbol_and_date.  Neither has a try     *)
(* around its query or its commit: a failing statement leaves the handler  *)
(* as the SQLAlchemyError it is.                                           *)
(***************************************************************************)
\* filter(and_(Nepse.Close_Date == parsed_close_date, Nepse.Symbol == symbol))
FilterBySymbolAndDate(rows, symbol, date_obj) ==
    {n \in rows : n.Close_Date = DateOf(date_obj) /\ n.Symbol = symbol}

\* update_stock 128-131: .first() on a query with no order_by, so the table
\* decides which of the matching rows it hands out; none gives the 404.
UpdateFind(r) ==
    /\ req[r].pc = "update_find"
    /\ \E ok \in BOOLEAN :
         IF ~ok THEN req' = Ended(r, Raised("SQLAlchemyError"))
         ELSE LET matches == FilterBySymbolAndDate(store, req[r].symbol, req[r].date_obj)
              IN  IF matches = {}
                  THEN req' = Ended(r, HTTPException(404, "Stock record not found."))
                  ELSE \E item \in matches :
                         req' = [req EXCEPT ![r].data = <<item>>, ![r].pc = "update_commit"]
    /\ UNCHANGED <<store, nextSn, call>>

\* update_stock 134-147 on the mapped columns.  Line 146 assigns
\* Market_Capitalization_Rs_Amt_in_Millions, which is no column of Nepse
\* (the column has two underscores after Rs): the assignment makes a plain
\* attribute of the object and the column keeps its value.
UpdateFields(item, q) ==
    [item EXCEPT !.Total_Traded_Quantity = q.qty, !.Total_Trades = q.trades,
                 !.Close_Date = DateOf(q.date_obj)]

\* What db.commit() writes for the object item that now reads new: the
\* session's UPDATE sets the columns whose value differs from the one it
\* loaded, on the row n the table holds under item's Sn.  (Close_Date is set
\* each time, to the date the row was found by.)
Flush(n, item, new) ==
    [c \in DOMAIN n |-> IF new[c] # item[c] THEN new[c] ELSE n[c]]

\* update_stock 149-151: commit writes the row of item's Sn, refresh reads it
\* back, and the handler returns it.  With the row gone the UPDATE matches
\* nothing and the commit raises.
UpdateCommit(r) ==
    /\ req[r].pc = "update_commit"
    /\ \E ok \in BOOLEAN :
         IF ok
         THEN LET item == req[r].data[1]
                  new == UpdateFields(item, req[r])
                  rows == {n \in store : n.Sn = item.Sn}
              IN  IF rows = {}
                  THEN /\ req' = Ended(r, Raised("StaleDataError"))
                       /\ UNCHANGED <<store, nextSn, call>>
                  ELSE /\ store' = {IF n.Sn = item.Sn THEN Flush(n, item, new) ELSE n :
                                      n \in store}
                       /\ \E n \in rows :
                            req' = Ended(r, RecordResult(Flush(n, item, new)))
                       /\ UNCHANGED <<nextSn, call>>
         ELSE /\ req' = Ended(r, Raised("SQLAlchemyError"))
              /\ UNCHANGED <<store, nextSn, call>>

\* Variant: an empty result is not checked, and the handler goes on to its
\* commit and its message.
DeleteFind_NoCheck(r) ==
    /\ req[r].pc = "delete_find"
    /\ \E ok \in BOOLEAN :
         req' = IF ~ok THEN Ended(r, Raised("SQLAlchemyError"))
                ELSE [req EXCEPT ![r].data =
                          OrderBySn(FilterBySymbolAndDate(store, req[r].symbol,
                                                          req[r].date_obj)),
                                 ![r].pc = "delete_commit"]
    /\ UNCHANGED <<store, nextSn, call>>

\* delete_stock_by_symbol_and_date 436-440: .all() of the matching rows (kept
\* here by Sn; the handler never looks at their order); none gives the 404.
DeleteFind(r) ==
    /\ req[r].pc = "delete_find"
    /\ \E ok \in BOOLEAN :
         req' = IF ~ok THEN Ended(r, Raised("SQLAlchemyError"))
                ELSE LET data_to_delete ==
                             OrderBySn(FilterBySymbolAndDate(store, req[r].symbol,
                                                             req[r].date_obj))
                     IN  IF data_to_delete = <<>>
                         THEN Ended(r, HTTPException(404,
                                  "No stock found with the given symbol and date."))
                         ELSE [req EXCEPT ![r].data = data_to_delete,
                                          ![r].pc = "delete_commit"]
    /\ UNCHANGED <<store, nextSn, call>>

\* The rows db.delete marked, by their primary key.
Marked(data_to_delete) == {data_to_delete[i].Sn : i \in 1..Len(data_to_delete)}

\* Variant: only the first of the rows found is deleted.
DeleteRows_FirstOnly(rows, data_to_delete) ==
    {n \in rows : data_to_delete = <<>> \/ n.Sn # data_to_delete[1].Sn}

\* delete_stock_by_symbol_and_date 443-444: every row found is marked.
DeleteRows(rows, data_to_delete) ==
    {n \in rows : n.Sn \notin Marked(data_to_delete)}

\* delete_stock_by_symbol_and_date 446-447: one commit for all the rows marked,
\* then the message.
DeleteCommit(r) ==
    /\ req[r].pc = "delete_commit"
    /\ \E ok \in BOOLEAN :
         IF ok
         THEN /\ store' = DeleteRows(store, req[r].data)
              /\ req' = Ended(r, MessageResult(
                            "Stock {symbol} from the date {close_date} deleted successfully!"))
              /\ UNCHANGED <<nextSn, call>>
         ELSE /\ req' = Ended(r, Raised("SQLAlchemyError"))
              /\ UNCHANGED <<store, nextSn, call>>

\* The response is sent and the slot is free for the next request.
Finish(r) ==
    /\ req[r].pc = "done"
    /\ req' = [req EXCEPT ![r] = IdleReq]
    /\ UNCHANGED <<store, nextSn, call>>

Next ==
    \E r \in Reqs :
        \/ Start(r)
        \/ Validate(r)
        \/ StoreQuery(r)
        \/ StoreRespond(r)
        \/ Convert(r)
        \/ DriverStart(r)
        \/ DriverStep(r)
        \/ Extract(r)
        \/ Insert(r)
        \/ Finish(r)

Spec == Init /\ [][Next]_vars

(***************************************************************************)
(* Retrieval requests of one filter in flight together, each in a worker   *)
(* process of its own: the workers share the table and nothing else, and   *)
(* their steps interleave.  A request starts while none has ended.         *)
(***************************************************************************)
ConcStores == {{}, {Nepse(1, "A", 5, 3, 7, <<2024, 7, 3>>)}}

InitConc ==
    /\ store \in ConcStores
    /\ nextSn = Cardinality(store) + 1
    /\ req = [r \in Reqs |-> IdleReq]
    /\ call = NoCall

StartConc(r) ==
    /\ req[r].pc = "idle"
    /\ \A o \in Reqs : req[o].pc # "done"
    /\ \E op \in RetrievalOps, symbol \in Symbols, page \in Pages, page_size \in PageSizes :
         /\ op = "get_stock_by_date" => symbol = "A"
         /\ \A o \in Reqs \ {r} :
                req[o].pc # "idle" => (req[o].op = op /\ (req[o].symbol = symbol
                                                          \/ op = "get_stock_by_date"))
         /\ req' = [req EXCEPT ![r] =
                       [IdleReq EXCEPT !.pc = "validate", !.op = op, !.date = Date0703,
                                       !.symbol = IF op = "get_stock_by_date" THEN ""
                                                  ELSE symbol,
                                       !.page = page, !.page_size = page_size,
                                       !.db = "open"]]
    /\ UNCHANGED <<store, nextSn, call>>

NextConc ==
    \E r \in Reqs :
        \/ StartConc(r)
        \/ Validate(r)
        \/ StoreQuery(r)
        \/ StoreRespond(r)
        \/ Convert(r)
        \/ DriverStart(r)
        \/ DriverStep(r)
        \/ Extract(r)

SpecConc == InitConc /\ [][NextConc]_vars

(***************************************************************************)
(* A retrieval request and, once it has ended, the same request again: no  *)
(* write handler runs, so the table stays as it is between the two.        *)
(***************************************************************************)
RepeatStores ==
    {{},
     {Nepse(1, "A", 5, 3, 7, <<2024, 7, 3>>)},
     {Nepse(1, "A", 5, 3, 7, <<2024, 7, 3>>), Nepse(2, "B", 5, 3, 7, <<2024, 7, 3>>)}}

InitRepeat ==
    /\ store \in RepeatStores
    /\ nextSn = Cardinality(store) + 1
    /\ req = [r \in Reqs |-> IdleReq]
    /\ call = NoCall

StartFirst(r) ==
    /\ \A o \in Reqs : req[o].pc = "idle"
    /\ \E op \in RetrievalOps, date \in QueryDates, symbol \in Symbols, page \in Pages,
          page_size \in PageSizes :
         /\ op = "get_stock_by_date" => symbol = "A"
         /\ req' = [req EXCEPT ![r] =
                       [IdleReq EXCEPT !.pc = "validate", !.op = op, !.date = date,
                                       !.symbol = IF op = "get_stock_by_date" THEN ""
                                                  ELSE symbol,
                                       !.page = page, !.page_size = page_size,
                                       !.db = "open"]]
    /\ UNCHANGED <<store, nextSn, call>>

Repeat(r) ==
    /\ req[r].pc = "idle"
    /\ \E o \in Reqs :
         /\ req[o].pc = "done"
         /\ req' = [req EXCEPT ![r] =
                       [IdleReq EXCEPT !.pc = "validate", !.op = req[o].op,
                                       !.date = req[o].date, !.symbol = req[o].symbol,
                                       !.page = req[o].page,
                                       !.page_size = req[o].page_size, !.db = "open"]]
    /\ UNCHANGED <<store, nextSn, call>>

NextRepeat ==
    \E r \in Reqs :
        \/ StartFirst(r)
        \/ Repeat(r)
        \/ Validate(r)
        \/ StoreQuery(r)
        \/ StoreRespond(r)
        \/ Convert(r)
        \/ DriverStart(r)
        \/ DriverStep(r)
        \/ Extract(r)

SpecRepeat == InitRepeat /\ [][NextRepeat]_vars

(***************************************************************************)
(* Update and delete requests in flight together, each in a worker process *)
(* with a database session of its own; the table runs one statement at a   *)
(* time and a session sees what the others have committed.                 *)
(***************************************************************************)
WriterStores ==
    {{Nepse(1, "A", 5, 3, 7, <<2024, 7, 3>>)},
     {Nepse(1, "A", 5, 3, 7, <<2024, 7, 3>>), Nepse(2, "A", 5, 3, 7, <<2024, 7, 3>>)}}

UpdateTrades == {3, 4}

InitWriters ==
    /\ store \in WriterStores
    /\ nextSn = Cardinality(store) + 1
    /\ req = [r \in Reqs |-> IdleReq]
    /\ call = NoCall

StartWriter(r) ==
    /\ req[r].pc = "idle"
    /\ \/ \E symbol \in Symbols, qty \in WriteQuantities, trades \in UpdateTrades,
             mcap \in UpdateMarketCaps :
            req' = [req EXCEPT ![r] =
                       [IdleReq EXCEPT !.pc = "validate", !.op = "update_stock",
                                       !.date = Date0703, !.symbol = symbol,
                                       !.qty = qty, !.trades = trades,
                                       !.mcap = mcap, !.db = "open"]]
       \/ \E symbol \in Symbols :
            req' = [req EXCEPT ![r] =
                       [IdleReq EXCEPT !.pc = "validate",
                                       !.op = "delete_stock_by_symbol_and_date",
                                       !.date = Date0703, !.symbol = symbol,
                                       !.db = "open"]]
    /\ UNCHANGED <<store, nextSn, call>>

NextWriters ==
    \E r \in Reqs :
        \/ StartWriter(r)
        \/ Validate(r)
        \/ UpdateFind(r)
        \/ UpdateCommit(r)
        \/ DeleteFind(r)
        \/ DeleteCommit(r)

SpecWriters == InitWriters /\ [][NextWriters]_vars

(***************************************************************************)
(* By-date retrieval requests in flight together with create and delete    *)
(* requests of other clients, each in a worker process with a session of   *)
(* its own.  The engine is created with the database's default isolation,  *)
(* so each statement of a session reads what is committed when it runs.    *)
(***************************************************************************)
StartRace(r) ==
    /\ req[r].pc = "idle"
    /\ \A o \in Reqs : req[o].pc # "done"
    /\ \/ \E page \in Pages, page_size \in PageSizes :
            req' = [req EXCEPT ![r] =
                       [IdleReq EXCEPT !.pc = "validate", !.op = "get_stock_by_date",
                                       !.date = Date0703, !.page = page,
                                       !.page_size = page_size, !.db = "open"]]
       \/ /\ Cardinality(store) < MaxStore
          /\ \E symbol \in Symbols, qty \in AddQuantities, trades \in AddTrades,
                mcap \in AddMarketCaps :
               req' = [req EXCEPT ![r] =
                          [IdleReq EXCEPT !.pc = "validate", !.op = "add_stock",
                                          !.date = Date0703, !.symbol = symbol,
                                          !.qty = qty, !.trades = trades,
                                          !.mcap = mcap, !.db = "open"]]
       \/ \E symbol \in Symbols :
            req' = [req EXCEPT ![r] =
                       [IdleReq EXCEPT !.pc = "validate",
                                       !.op = "delete_stock_by_symbol_and_date",
                                       !.date = Date0703, !.symbol = symbol,
                                       !.db = "open"]]
    /\ UNCHANGED <<store, nextSn, call>>

NextRace ==
    \E r \in Reqs :
        \/ StartRace(r)
        \/ Validate(r)
        \/ StoreQuery(r)
        \/ StoreRespond(r)
        \/ Convert(r)
        \/ DriverStart(r)
        \/ DriverStep(r)
        \/ Extract(r)
        \/ Insert(r)
        \/ DeleteFind(r)
        \/ DeleteCommit(r)

SpecRace == InitRepeat /\ [][NextRace]_vars

(***************************************************************************)
(* The helpers of functions.py called directly, each on one argument drawn *)
(* from the cell texts up to MaxCellLen characters and from the tables of  *)
(* up to MaxRows body rows in either layout.                               *)
(***************************************************************************)
MaxCellLen == 3
MaxRows == 2

CellChars == {"1", "2", ",", "-", "."}

RECURSIVE TextsOfLen(_)
TextsOfLen(n) ==
    IF n = 0 THEN {<<>>}
    ELSE {<<c>> \o t : c \in CellChars, t \in TextsOfLen(n - 1)}

CellTexts == UNION {TextsOfLen(n) : n \in 0..MaxCellLen}

BodyRows == {RowA, RowB, ShortRow}

RECURSIVE RowsOfLen(_)
RowsOfLen(n) ==
    IF n = 0 THEN {<<>>}
    ELSE {<<row>> \o rows : row \in BodyRows, rows \in RowsOfLen(n - 1)}

Tables ==
    LET bodies == UNION {RowsOfLen(n) : n \in 0..MaxRows}
    IN  {FragBlank, FragNoRows} \cup {FragSite(rows) : rows \in bodies}
                                \cup {FragFlat(rows) : rows \in bodies}

Coercions == {"safe_int", "safe_float"}
Extractors == {"process_html_to_dataframe_date", "process_html_to_dataframe_symbol"}

Call(fn, value, html_content, date_str) ==
    [fn |-> fn, pc |-> "called", value |-> value, html_content |-> html_content,
     date_str |-> date_str, ret |-> <<>>]

InitHelpers ==
    /\ store = {}
    /\ nextSn = 1
    /\ req = [r \in Reqs |-> IdleReq]
    /\ \/ \E fn \in Coercions, value \in CellTexts :
            call = Call(fn, value, FragNoRows, Date0703)
       \/ \E fn \in Extractors, html_content \in Tables, date_str \in {Date0703, DateLoose} :
            call = Call(fn, <<>>, html_content, date_str)

Returns(ret) ==
    /\ call.pc = "called"
    /\ call' = [call EXCEPT !.pc = "returned", !.ret = ret]
    /\ UNCHANGED <<store, nextSn, req>>

CallSafeInt == call.fn = "safe_int" /\ Returns(safe_int(call.value))
CallSafeFloat == call.fn = "safe_float" /\ Returns(safe_float(call.value))
CallProcessDate ==
    /\ call.fn = "process_html_to_dataframe_date"
    /\ Returns(process_html_to_dataframe_date(call.html_content, call.date_str))
CallProcessSymbol ==
    /\ call.fn = "process_html_to_dataframe_symbol"
    /\ Returns(process_html_to_dataframe_symbol(call.html_content, call.date_str))

NextHelpers == CallSafeInt \/ CallSafeFloat \/ CallProcessDate \/ CallProcessSymbol

SpecHelpers == InitHelpers /\ [][NextHelpers]_vars

(***************************************************************************)
(* The three write handlers, one request after the other.  A row deleted   *)
(* frees no Sn, so the inserts of a behaviour are counted by nextSn.       *)
(***************************************************************************)
MaxSn == 3

StartWrite(r) ==
    /\ \A o \in Reqs : req[o].pc = "idle"
    /\ \/ /\ Cardinality(store) < MaxStore
          /\ nextSn <= MaxSn
          /\ \E date \in AddDates, symbol \in Symbols, qty \in WriteQuantities,
                trades \in AddTrades, mcap \in AddMarketCaps :
               req' = [req EXCEPT ![r] =
                          [IdleReq EXCEPT !.pc = "validate", !.op = "add_stock",
                                          !.date = date, !.symbol = symbol,
                                          !.qty = qty, !.trades = trades,
                                          !.mcap = mcap, !.db = "open"]]
       \/ \E date \in AddDates, symbol \in Symbols, qty \in WriteQuantities,
             trades \in AddTrades, mcap \in UpdateMarketCaps :
            req' = [req EXCEPT ![r] =
                       [IdleReq EXCEPT !.pc = "validate", !.op = "update_stock",
                                       !.date = date, !.symbol = symbol,
                                       !.qty = qty, !.trades = trades,
                                       !.mcap = mcap, !.db = "open"]]
       \/ \E date \in AddDates, symbol \in Symbols :
            req' = [req EXCEPT ![r] =
                       [IdleReq EXCEPT !.pc = "validate",
                                       !.op = "delete_stock_by_symbol_and_date",
                                       !.date = date, !.symbol = symbol, !.db = "open"]]
    /\ UNCHANGED <<store, nextSn, call>>

NextWrite ==
    \E r \in Reqs :
        \/ StartWrite(r)
        \/ Validate(r)
        \/ Insert(r)
        \/ UpdateFind(r)
        \/ UpdateCommit(r)
        \/ DeleteFind(r)
        \/ DeleteCommit(r)
        \/ Finish(r)

SpecWrite == Init /\ [][NextWrite]_vars

(***************************************************************************)
(* Vocabulary of the properties.                                           *)
(***************************************************************************)
Done(r) == req[r].pc = "done"
Retrieval(r) == req[r].op \in RetrievalOps
Res(r) == req[r].result

\* The paged store query of r returned at least one row.
StoreHit(r) == req[r].data # <<>>
\* The driver was asked for (the fallback branch got past the date adapter).
DriverAsked(r) == req[r].formatted_date # <<>>
\* The driver session of r returned the markup.
Fetched(r) == req[r].step > Len(DriverSteps(req[r].op))
\* The driver of r failed, at its start or at a later step.
DriverFailed(r) == Done(r) /\ DriverAsked(r) /\ ~Fetched(r)

\* The rows the request's filter names: the date, and the symbol where the
\* request gives one.
Matching(r) ==
    {n \in store : /\ n.Close_Date = DateOf(req[r].date_obj)
                   /\ (req[r].op = "get_stock_by_date_and_symbol"
                         => n.Symbol = req[r].symbol)}

\* The rows of S on page `page`: those with at least (page-1)*page_size and
\* fewer than page*page_size rows of S before them in Sn order.
Rank(n, S) == Cardinality({o \in S : o.Sn < n.Sn})
PageOf(S, page, page_size) ==
    {n \in S : /\ (page - 1) * page_size <= Rank(n, S)
               /\ Rank(n, S) < page * page_size}

Range(seq) == {seq[i] : i \in 1..Len(seq)}
AscendingSn(seq) == \A i, j \in 1..Len(seq) : i < j => seq[i].Sn < seq[j].Sn

\* The success payload of r holds exactly the rows of its page, ascending.
ServesPage(r) ==
    /\ Res(r).kind = "data"
    /\ Range(Res(r).data) = {ItemDict(n) : n \in PageOf(Matching(r), req[r].page, req[r].page_size)}
    /\ Len(Res(r).data) = Cardinality(Range(Res(r).data))
    /\ AscendingSn(Res(r).data)

\* The frame the extractor of r gives for the markup it fetched.
Frame(r) == ProcessHtml(r).frame
Extracted(r) == Done(r) /\ Retrieval(r) /\ Fetched(r) /\ ProcessHtml(r).err = "ok"

C2_TotalIsFilterCount ==
    \A r \in Reqs :
        (Done(r) /\ Retrieval(r) /\ StoreHit(r) /\ Res(r) # Raised("SQLAlchemyError"))
            => /\ Res(r).kind = "data"
               /\ Res(r).total_records = Cardinality(Matching(r))

(***************************************************************************)
(* C3.  A by-date-and-symbol request for which the store holds a row of    *)
(* that date and symbol on the requested page ends with a success payload  *)
(* holding only rows of that symbol and date, ascending by serial, at most *)
(* page_size of them, and not with an error.                               *)
(***************************************************************************)
C3_SymbolStoreHit ==
    \A r \in Reqs :
        (/\ Done(r) /\ req[r].op = "get_stock_by_date_and_symbol"
         /\ req[r].date_obj.err = "ok"
         /\ PageOf(Matching(r), req[r].page, req[r].page_size) # {}
         /\ Res(r) # HTTPException(500, "Database operation failed"))
            => /\ Res(r).kind = "data"
               /\ Range(Res(r).data) \subseteq {ItemDict(n) : n \in Matching(r)}
               /\ AscendingSn(Res(r).data)
               /\ Len(Res(r).data) <= req[r].page_size

(***************************************************************************)
(* C4.  On the fallback path, when the extracted sequence is non-empty and *)
(* its slice [(page-1)*page_size : page*page_size] is non-empty, the data  *)
(* of the response is exactly that slice in row order and total_records is *)
(* the length of the whole extracted sequence.                             *)
(***************************************************************************)
C4_FallbackSlice ==
    \A r \in Reqs :
        LET first == (req[r].page - 1) * req[r].page_size
            rest == Len(Frame(r)) - first
            n == IF rest < req[r].page_size THEN rest ELSE req[r].page_size
        IN  (Extracted(r) /\ first < Len(Frame(r)))
                => /\ Res(r).kind = "data"
                   /\ Len(Res(r).data) = n
                   /\ \A i \in 1..n : Res(r).data[i] = Frame(r)[first + i]
                   /\ Res(r).total_records = Len(Frame(r))
                   /\ Res(r).page = req[r].page
                   /\ Res(r).page_size = req[r].page_size

\* Three rows extracted, page 2 of size 2: the last row alone, total 3.
C4_Witness ==
    \E r \in Reqs :
        /\ Extracted(r) /\ Len(Frame(r)) = 3
        /\ req[r].page = 2 /\ req[r].page_size = 2
        /\ Res(r).kind = "data" /\ Res(r).data = <<Frame(r)[3]>>
        /\ Res(r).total_records = 3

(***************************************************************************)
(* C5.  On the fallback path, whenever the extractor yields an empty       *)
(* sequence the request ends with the "no data found for the specified     *)
(* date" message: neither an error nor a success payload, whatever the     *)
(* page and page_size.                                                     *)
(***************************************************************************)
C5_EmptyExtraction ==
    \A r \in Reqs :
        (Extracted(r) /\ Frame(r) = <<>>)
            => Res(r) = MessageResult("No data found for the specified date")

C5_Witness ==
    \E r \in Reqs :
        /\ Extracted(r) /\ Frame(r) = <<>> /\ req[r].page = 2
        /\ req[r].inner_html.groups # <<>>
        /\ Res(r).kind = "message"

(***************************************************************************)
(* C6.  On the fallback path, when the extracted sequence is non-empty but *)
(* (page-1)*page_size is at or beyond its length, the request ends with    *)
(* the "no data on this page" message, which is neither the "no data found *)
(* for the specified date" message nor a success payload.                  *)
(***************************************************************************)
C6_PageBeyondData ==
    \A r \in Reqs :
        (/\ Extracted(r) /\ Frame(r) # <<>>
         /\ (req[r].page - 1) * req[r].page_size >= Len(Frame(r)))
            => /\ Res(r) = MessageResult("No data found on this page")
               /\ Res(r) # MessageResult("No data found for the specified date")
               /\ Res(r).kind # "data"

C6_Witness ==
    \E r \in Reqs :
        /\ Extracted(r) /\ Len(Frame(r)) = 2
        /\ req[r].page = 2 /\ req[r].page_size = 2
        /\ Res(r).kind = "message"

(***************************************************************************)
(* C7.  No request ends while holding a driver session or a store session: *)
(* a driver session is open only while the handler is inside its try       *)
(* block, and a store session only between the start and the end of the    *)
(* request; both are released on every exit, failures included.            *)
(***************************************************************************)
C7_SessionsReleased ==
    \A r \in Reqs :
        /\ req[r].driver = "open" => req[r].pc = "driving"
        /\ req[r].db = "open" => req[r].pc \notin {"idle", "done"}
        /\ Done(r) => req[r].db = "closed" /\ req[r].driver \in {"none", "quit"}

\* A request that ended on a failed driver step after the session was opened.
C7_Witness ==
    \E r \in Reqs :
        /\ DriverFailed(r) /\ req[r].step = 3
        /\ req[r].driver = "quit" /\ req[r].db = "closed"

C9_InvalidDateFirst ==
    \A r \in Reqs :
        (Done(r) /\ Retrieval(r) /\ strptime(req[r].date).err # "ok")
            => /\ Res(r) = HTTPException(400, InvalidDateDetail(req[r].op))
               /\ req[r].data = <<>>
               /\ req[r].driver = "none"

\* A step taken by a retrieval request in slot r.
RetrievalStep(r) ==
    /\ req'[r] # req[r]
    /\ req[r].op \in RetrievalOps \/ req'[r].op \in RetrievalOps

(***************************************************************************)
(* C10.  No step of a retrieval request changes the store, whichever way   *)
(* the request ends; so when a request served by the fallback ends, its    *)
(* paged store query is as empty as before, and the same request again     *)
(* takes the fallback and starts the driver again.                         *)
(***************************************************************************)
C10_RetrievalKeepsStore ==
    [][\A r \in Reqs :
          RetrievalStep(r)
              => /\ store' = store
                 /\ nextSn' = nextSn
                 /\ (req'[r].pc = "done" /\ req'[r].formatted_date # <<>>)
                        => PagedQueryOn(store', req'[r]) = <<>>]_vars

\* A request served by the fallback ended while the store holds rows.
C10_Witness ==
    \E r \in Reqs :
        /\ Extracted(r) /\ Res(r).kind = "data"
        /\ store # {}
        /\ PagedQuery(r) = <<>>

(***************************************************************************)
(* Vocabulary of the write handlers.                                       *)
(***************************************************************************)
\* The rows of the table the request's (symbol, close date) pair names.
Targets(r) == {n \in store : n.Symbol = req[r].symbol
                              /\ n.Close_Date = DateOf(req[r].date_obj)}

\* The lookup of an update or a delete in slot r answers in this step.
LookupAnswers(r) ==
    /\ req[r].pc \in {"update_find", "delete_find"}
    /\ req'[r] # req[r]
    /\ req'[r].result # Raised("SQLAlchemyError")

\* The 404 of each handler.
NotFound(r) ==
    IF req[r].op = "update_stock" THEN HTTPException(404, "Stock record not found.")
    ELSE HTTPException(404, "No stock found with the given symbol and date.")

(***************************************************************************)
(* C11.  When the lookup of an update or of a delete answers and the       *)
(* (symbol, close date) pair names no row of the table, the request ends   *)
(* in that step with the 404 of its handler, and no row of the table has   *)
(* changed.                                                                *)
(***************************************************************************)
C11_NotFoundKeepsStore ==
    [][\A r \in Reqs :
          (LookupAnswers(r) /\ Targets(r) = {})
              => /\ req'[r].pc = "done"
                 /\ req'[r].result = NotFound(r)
                 /\ store' = store]_vars

\* A delete ended with the 404 while the table holds rows of other pairs.
C11_Witness ==
    \E r \in Reqs :
        /\ Done(r) /\ req[r].op = "delete_stock_by_symbol_and_date"
        /\ Res(r) = NotFound(r)
        /\ Targets(r) = {} /\ store # {}

\* An update in slot r ended with the row it returns.
Updated(r) == Done(r) /\ req[r].op = "update_stock" /\ Res(r).kind = "record"

(***************************************************************************)
(* C12.  When an update has ended with success, the row it returns and the *)
(* row of the table with that Sn carry every value the request supplied:   *)
(* the traded quantity and the market capitalization.                      *)
(***************************************************************************)
C12_UpdateCarriesAllFields ==
    \A r \in Reqs :
        Updated(r)
            => LET item == Res(r).data[1]
               IN  /\ item.Total_Traded_Quantity = req[r].qty
                   /\ item.Market_Capitalization_Rs__Amt_in_Millions = req[r].mcap
                   /\ item \in store

(***************************************************************************)
(* C13.  The commit of a successful delete removes from the table every    *)
(* row of the request's (symbol, close date) pair, at least one, and       *)
(* nothing else: every other row is in the table as it was, and no row of  *)
(* that pair is left.                                                      *)
(***************************************************************************)
C13_DeleteRemovesAllMatches ==
    [][\A r \in Reqs :
          (req[r].pc = "delete_commit" /\ req'[r].result.kind = "message")
              => /\ Targets(r) # {}
                 /\ store' = store \ Targets(r)
                 /\ \A n \in store' : ~(n.Symbol = req[r].symbol
                                        /\ n.Close_Date = DateOf(req[r].date_obj))
                 /\ nextSn' = nextSn]_vars

\* A delete ended with success after it removed two rows of one pair.
C13_Witness ==
    \E r \in Reqs :
        /\ Done(r) /\ req[r].op = "delete_stock_by_symbol_and_date"
        /\ Res(r).kind = "message"
        /\ Len(req[r].data) = 2
        /\ Targets(r) = {}

(***************************************************************************)
(* C14.  When an update has ended with success, the row it changed and     *)
(* returns is the row with the lowest Sn among the rows of the request's   *)
(* (symbol, close date) pair.                                              *)
(***************************************************************************)
C14_UpdateLowestSerial ==
    \A r \in Reqs :
        Updated(r) => \A n \in Targets(r) : Res(r).data[1].Sn <= n.Sn

(***************************************************************************)
(* C19.  The traded quantity of every row of the table, and of every row a *)
(* request returns, is a non-negative integer.  (Total_Trades is carried   *)
(* by the handlers exactly as Total_Traded_Quantity is.)                   *)
(***************************************************************************)
C19_QuantitiesNonNegative ==
    /\ \A n \in store : n.Total_Traded_Quantity \in Nat
    /\ \A r \in Reqs : \A i \in 1..Len(Res(r).data) :
           Res(r).data[i].Total_Traded_Quantity \in Nat

(***************************************************************************)
(* Vocabulary of the helper calls.                                         *)
(***************************************************************************)
Returned(fns) == call.fn \in fns /\ call.pc = "returned"

\* All rows of a table in document order, and those of NumCells cells.
RECURSIVE RowsInOrder(_)
RowsInOrder(groups) ==
    IF groups = <<>> THEN <<>> ELSE groups[1].rows \o RowsInOrder(Tail(groups))

HasNumCells(row) == Len(row) = NumCells
WellFormedRows(html_content) == SelectSeq(RowsInOrder(html_content.groups), HasNumCells)

(***************************************************************************)
(* C15.  Either extractor, called on a table (a header row, then rows of   *)
(* 15 cells and rows of other cell counts; for the symbol variant the      *)
(* table of class table__lg it looks for), returns one record per row of   *)
(* 15 cells, in document order, whichever place the row has in the table   *)
(* body; and every record's Close_Date is the date of the date argument.   *)
(***************************************************************************)
C15_ExtractsEveryRow ==
    (/\ Returned(Extractors) /\ ~call.html_content.blank
     /\ call.fn = "process_html_to_dataframe_symbol"
            => \A i \in 1..Len(call.html_content.groups) :
                   call.html_content.groups[i].table_lg)
        => LET rows == WellFormedRows(call.html_content)
               frame == call.ret.frame
           IN  /\ call.ret.err = "ok"
               /\ Len(frame) = Len(rows)
               /\ \A i \in 1..Len(frame) :
                     /\ i <= Len(rows) => frame[i].Symbol = rows[i][2]
                     /\ DateOf(strptime(frame[i].Close_Date))
                            = DateOf(strptime(call.date_str))

(***************************************************************************)
(* C16.  Neither extractor fails: called on blank markup, or on markup     *)
(* with no row of 15 cells, it returns the empty frame.                    *)
(***************************************************************************)
C16_ExtractionNeverFails ==
    (Returned(Extractors) /\ WellFormedRows(call.html_content) = <<>>)
        => call.ret.err = "ok" /\ call.ret.frame = <<>>

\* What the claim expects of a cell text: commas removed, then the number if
\* digits alone are left, zero otherwise.
ExpectedInt(value) ==
    LET u == Replace(value, ",", <<>>)
    IN  IF u # <<>> /\ AllDigits(u) THEN DecVal(u) ELSE 0

(***************************************************************************)
(* C17.  For every cell text over digits, commas and the dash, safe_int    *)
(* and safe_float return the number the text spells once its commas are    *)
(* removed, and zero when anything but digits is left: for the lone dash,  *)
(* and for a dash next to or between digits.                               *)
(***************************************************************************)
C17_CoercionDefaults ==
    (Returned(Coercions) /\ \A i \in 1..Len(call.value) : call.value[i] # ".")
        => IF call.fn = "safe_int"
           THEN call.ret = ExpectedInt(call.value)
           ELSE call.ret = [whole |-> ExpectedInt(call.value), frac |-> <<>>]

(***************************************************************************)
(* Vocabulary of the requests in flight together.                          *)
(***************************************************************************)
\* webdriver.Firefox() was called for r: it gave r a session, or it failed.
Invoked(r) ==
    \/ req[r].driver # "none"
    \/ Done(r) /\ DriverAsked(r) /\ req[r].step = 0
               /\ Res(r) = Raised("WebDriverException")

\* What the fallback of r returns from the markup r fetched, by itself.
AloneFallback(r) ==
    LET p == ProcessHtml(r)
    IN  IF p.err # "ok" THEN Raised(p.err)
        ELSE FallbackResult(p.frame, req[r].page, req[r].page_size)

(***************************************************************************)
(* C18.  Of the requests of one filter in flight together that miss the    *)
(* store, each has a driver session of its own: none reaches the           *)
(* extraction, or ends in anything but the driver's failure, without       *)
(* having fetched the markup through its own session and quit it; when     *)
(* all have ended after the miss, the driver was invoked once for each;    *)
(* and each response is what its own markup, page and page size give.      *)
(***************************************************************************)
C18_OwnDriverEach ==
    /\ \A r \in Reqs :
          /\ (req[r].pc = "extract"
                 \/ (Done(r) /\ DriverAsked(r) /\ Res(r) # Raised("WebDriverException")))
                => (Fetched(r) /\ req[r].driver = "quit")
          /\ (Done(r) /\ Fetched(r)) => Res(r) = AloneFallback(r)
    /\ (\A r \in Reqs : Done(r) /\ DriverAsked(r))
          => Cardinality({r \in Reqs : Invoked(r)}) = Cardinality(Reqs)

\* All the requests in flight together missed the store and ended with data,
\* each from markup of its own.
C18_Witness ==
    /\ \A r \in Reqs : Done(r) /\ Fetched(r) /\ Res(r).kind = "data"
    /\ \E r, o \in Reqs : req[r].inner_html # req[o].inner_html

\* The requests in slots r and o carry the same filter, page and page size.
SameRequest(r, o) ==
    /\ req[r].op = req[o].op /\ req[r].date = req[o].date
    /\ req[r].symbol = req[o].symbol
    /\ req[r].page = req[o].page /\ req[r].page_size = req[o].page_size

C21_NoMixedUpdate ==
    \A r, o \in Reqs :
        (r # o /\ Updated(r) /\ Updated(o) /\ Res(r).data[1].Sn = Res(o).data[1].Sn)
            => \A n \in store :
                   n.Sn = Res(r).data[1].Sn
                       => \E w \in {r, o} :
                              /\ n.Total_Traded_Quantity = req[w].qty
                              /\ n.Total_Trades = req[w].trades

\* The store query of r has answered (it did not fail).
StoreAnswered(r) ==
    /\ Retrieval(r)
    /\ req[r].pc \notin {"idle", "validate", "query"}
    /\ req[r].date_obj.err = "ok"
    /\ Res(r) # HTTPException(500, StoreErrorDetail(req[r].op))

(***************************************************************************)
(* C22.  When the table holds m >= 1 rows of the request's filter and the  *)
(* requested page starts at or after the m-th row, (page-1)*page_size >= m,*)
(* the request is not served by the store branch: it takes the fallback    *)
(* and, by the time it ends, has invoked the driver.                       *)
(***************************************************************************)
C22_EmptyPageFallsBack ==
    \A r \in Reqs :
        (/\ StoreAnswered(r)
         /\ Matching(r) # {}
         /\ (req[r].page - 1) * req[r].page_size >= Cardinality(Matching(r)))
            => /\ ~StoreHit(r)
               /\ Done(r) => (DriverAsked(r) /\ Invoked(r))

(***************************************************************************)
(* C23.  In every success response of the store branch total_records is at *)
(* least the number of rows in data, whatever create and delete requests   *)
(* of other clients commit between the page query and the count query.     *)
(***************************************************************************)
C23_TotalCoversPage ==
    \A r \in Reqs :
        (Done(r) /\ Retrieval(r) /\ StoreHit(r) /\ Res(r).kind = "data")
            => Res(r).total_records >= Len(Res(r).data)

(***************************************************************************)
(* C24.  A retrieval request that has ended has exactly one outcome: the   *)
(* success payload, a message alone, or an error.  Only the success        *)
(* payload carries data; its data is not empty and has at most page_size   *)
(* rows, and its page and page_size are those of the request, whether the  *)
(* store branch or the fallback built it.                                  *)
(***************************************************************************)
C24_OneOutcome ==
    \A r \in Reqs :
        (Done(r) /\ Retrieval(r))
            => /\ Res(r).kind \in {"data", "message", "HTTPException", "exception"}
               /\ Res(r).kind # "data" => Res(r).data = <<>>
               /\ Res(r).kind = "data"
                     => /\ Res(r).data # <<>>
                        /\ Len(Res(r).data) <= req[r].page_size
                        /\ Res(r).page = req[r].page
                        /\ Res(r).page_size = req[r].page_size

\* The fallback ended with a full page out of a longer frame.
C24_Witness ==
    \E r \in Reqs :
        /\ Extracted(r) /\ Res(r).kind = "data"
        /\ Len(Res(r).data) = req[r].page_size
        /\ Len(Frame(r)) > req[r].page_size

(***************************************************************************)
(* C25.  No request ends with the 400 of the date adapter ("Date format    *)
(* should be YYYY-MM-DD"): a date text that passed the first check is      *)
(* converted without error.  A request reaches the driver only with its    *)
(* date checked and converted: the text handed to the driver is the        *)
(* MM/DD/YYYY form of the checked date.                                    *)
(***************************************************************************)
C25_AdapterNeverFails ==
    \A r \in Reqs :
        /\ Res(r) # HTTPException(400, "Date format should be YYYY-MM-DD")
        /\ (req[r].pc \in {"convert", "driver", "driving", "extract"}
               \/ req[r].driver # "none")
              => /\ req[r].date_obj.err = "ok"
                 /\ convert_date_format(req[r].date).err = "ok"
        /\ (req[r].pc \in {"driver", "driving", "extract"} \/ req[r].driver # "none")
              => req[r].formatted_date = strftime_mdY(req[r].date_obj)

\* A request whose date text is not in the padded form passed the first
\* check and the adapter, and fetched the markup.
C25_Witness ==
    \E r \in Reqs :
        /\ Done(r) /\ Fetched(r)
        /\ req[r].date = DateLoose
        /\ req[r].formatted_date = <<"0", "7", "/", "0", "3", "/", "2", "0", "2", "4">>

====
